---- MODULE Spec2Model ----
(***************************************************************************)
(* OAuth proxy of the Meta Graph API MCP server (src/src/index.ts): the    *)
(* signed token codec, the four in-memory tables with their sweep timer,   *)
(* the upstream code exchange, the OAuth HTTP endpoints and the session    *)
(* resolver.  Node runs every handler on one thread: a handler is atomic   *)
(* between two awaits, so each action below is one such run-to-await       *)
(* segment of a handler.                                                   *)
(***************************************************************************)
EXTENDS Naturals, Sequences, FiniteSets, Bags, TLC

(* ------------------------------ bounds -------------------------------- *)
\* authorize requests that store a transaction
MaxTxn == 2
\* authorization codes minted by callbacks
MaxCodes == 2
\* handlers suspended at one await at the same time
MaxInflight == 2
\* client registrations
MaxClients == 1
\* clock advances
MaxAdvances == 1
\* authorize requests that store a transaction in a run whose clock advances
MaxTimedTxn == 1

(* ------------------------- program constants -------------------------- *)
TxnTtlMs == 600000
CodeTtlMs == 300000
TokenTtlMs == 3600000
SweepIntervalMs == 60000
TokenTtlSec == 3600

(* --------------------------- value domains ---------------------------- *)
\* URLSearchParams.get of a parameter the request does not carry
NoVal == "null"
\* falsy in a JavaScript condition: null or the empty string
Truthy(v) == v # NoVal /\ v # ""

\* requests that reach no endpoint's code: << method, path >>
StaticRequests ==
  {<< "OPTIONS", "/oauth/authorize" >>,
   << "GET", "/.well-known/oauth-authorization-server" >>,
   << "GET", "/health" >>,
   << "GET", "/oauth/token" >>,
   << "GET", "/oauth/register" >>,
   << "POST", "/other" >>}
\* delays by which the clock moves between two events (ms)
Delays == {300000, 360000, 3660000}
\* Date.now() when the process starts: the sweep timer fires off the whole second
StartTimes == {1}

\* crypto.randomBytes: every draw is a value never drawn before
TxnIdOf(n) == "t" \o ToString(n)
CodeIdOf(n) == "k" \o ToString(n)
JtiOf(n) == "j" \o ToString(n)
ClientIdOf(n) == "r" \o ToString(n)
RandomState(n) == "x" \o ToString(n)
\* the code the upstream hands out for the login that the n-th authorize began
UpstreamCodeOf(n) == "u" \o ToString(n)

\* new URL(s): throws a TypeError unless s is an absolute URL
ParsesAsUrl(s) == s \in {"https://a/cb", "https://b/cb"}

\* ${baseUrl}/oauth/callback and FACEBOOK_AUTH_ENDPOINT
OwnCallbackUri == "baseUrl/oauth/callback"
FACEBOOK_AUTH_ENDPOINT == "https://www.facebook.com/v21.0/dialog/oauth"

(* ------------------------------ responses ----------------------------- *)
NoLoc == [base |-> NoVal, code |-> NoVal, state |-> NoVal, error |-> NoVal,
          error_description |-> NoVal, redirect_uri |-> NoVal]
NoToken == << >>
\* status 0: the handler has sent nothing
NoResp == [status |-> 0, error |-> NoVal, error_description |-> NoVal,
           loc |-> NoLoc, access_token |-> NoToken, token_type |-> NoVal,
           expires_in |-> 0]
\* json(data, status) with an OAuth error body
JsonError(st, e, d) == [NoResp EXCEPT !.status = st, !.error = e, !.error_description = d]
JsonOk == [NoResp EXCEPT !.status = 200]
\* res.writeHead(302, {Location}); res.end()
Redirect(l) == [NoResp EXCEPT !.status = 302, !.loc = l]
\* CORS preflight
Preflight == [NoResp EXCEPT !.status = 204]
NotFound == JsonError(404, "not_found", NoVal)

(* --------------------------- signed token codec ----------------------- *)
JWT_SECRET == "secret"
JwtHeader == [alg |-> "HS256", typ |-> "JWT"]
\* Buffer.from(JSON.stringify(obj)).toString("base64url")
Encode(obj) == [enc |-> "b64json", obj |-> obj]
\* crypto.createHmac("sha256", key).update(h.p).digest("base64url")
Hmac(key, h, p) == [enc |-> "mac", key |-> key, h |-> h, p |-> p]

\* a segment that is not the encoding of anything
Raw(s) == [enc |-> "raw", raw |-> s]
\* obj[k] in JavaScript: undefined when obj has no property k
Get(obj, k) == IF k \in DOMAIN obj THEN obj[k] ELSE NoVal

\* a codec that writes its own jti over the caller's sub
createJWTSubIsJti(payload, expiresIn, nowMs, jti) ==
  LET nowSec == nowMs \div 1000
      fullPayload == [k \in DOMAIN payload \cup {"iat", "exp", "jti"} |->
                        IF k = "iat" THEN nowSec
                        ELSE IF k = "exp" THEN nowSec + expiresIn
                        ELSE IF k \in {"jti", "sub"} THEN jti
                        ELSE payload[k]]
      headerB64 == Encode(JwtHeader)
      payloadB64 == Encode(fullPayload)
  IN  << headerB64, payloadB64, Hmac(JWT_SECRET, headerB64, payloadB64) >>

\* a token string is the sequence of its dot-separated segments; the
\* payload is the caller's claims with iat, exp and jti written over them
createJWT(payload, expiresIn, nowMs, jti) ==
  LET nowSec == nowMs \div 1000
      fullPayload == [k \in DOMAIN payload \cup {"iat", "exp", "jti"} |->
                        IF k = "iat" THEN nowSec
                        ELSE IF k = "exp" THEN nowSec + expiresIn
                        ELSE IF k = "jti" THEN jti
                        ELSE payload[k]]
      headerB64 == Encode(JwtHeader)
      payloadB64 == Encode(fullPayload)
  IN  << headerB64, payloadB64, Hmac(JWT_SECRET, headerB64, payloadB64) >>

NoPayload == [sub |-> NoVal, scope |-> NoVal, iat |-> 0, exp |-> 0, jti |-> NoVal]

\* a verifier that decodes the payload without comparing the signature
verifyJWTNoSignature(token, nowMs) ==
  IF Len(token) < 3 THEN [valid |-> FALSE, payload |-> NoPayload]
  ELSE LET payloadB64 == token[2]
       IN  IF payloadB64.enc # "b64json"
             THEN [valid |-> FALSE, payload |-> NoPayload]
           ELSE IF /\ "exp" \in DOMAIN payloadB64.obj
                   /\ payloadB64.obj.exp # 0
                   /\ payloadB64.obj.exp < nowMs \div 1000
             THEN [valid |-> FALSE, payload |-> NoPayload]
           ELSE [valid |-> TRUE, payload |-> payloadB64.obj]

verifyJWT(token, nowMs) ==
  IF Len(token) < 3 THEN [valid |-> FALSE, payload |-> NoPayload]
  ELSE LET headerB64 == token[1]
           payloadB64 == token[2]
           signature == token[3]
       IN  IF signature.enc # "mac" \/ signature # Hmac(JWT_SECRET, headerB64, payloadB64)
             THEN [valid |-> FALSE, payload |-> NoPayload]
           ELSE IF payloadB64.enc # "b64json"
             THEN [valid |-> FALSE, payload |-> NoPayload]
           ELSE IF /\ "exp" \in DOMAIN payloadB64.obj
                   /\ payloadB64.obj.exp # 0
                   /\ payloadB64.obj.exp < nowMs \div 1000
             THEN [valid |-> FALSE, payload |-> NoPayload]
           ELSE [valid |-> TRUE, payload |-> payloadB64.obj]

(* ------------------------ upstream code exchange ---------------------- *)
\* what one upstream HTTP call does: a success response, a non-success
\* response with an error body, or a network error (fetch rejects)
CallOutcomes == {"ok", "http_error", "network_error"}
AllOk == [step1 |-> "ok", step2 |-> "ok", user |-> "ok", pages |-> "ok"]
\* the upstream answers every call, rejects the code, or cannot be reached
\* for the token upgrade
UpstreamBehaviours ==
  {AllOk, [AllOk EXCEPT !.step1 = "http_error"], [AllOk EXCEPT !.step2 = "network_error"]}
\* expires_in of the upstream's short-lived and long-lived tokens (s)
ShortExpiresIn == 3600
LongExpiresIn == 2000000

NoSession == [userAccessToken |-> NoVal, userId |-> NoVal, expiresAt |-> 0,
              pageTokens |-> {}]
Threw(msg) == [ok |-> FALSE, err |-> msg, session |-> NoSession]

exchangeFacebookCode(code, up, nowMs) ==
  IF up.step1 = "network_error" THEN Threw("TypeError: fetch failed")
  ELSE IF up.step1 = "http_error" THEN Threw("Error: Token exchange failed")
  ELSE IF up.step2 = "network_error" THEN Threw("TypeError: fetch failed")
  ELSE LET longOk == up.step2 = "ok"
           accessToken == IF longOk THEN "long_" \o code ELSE "short_" \o code
           expiresIn == IF longOk THEN LongExpiresIn ELSE ShortExpiresIn
       IN  IF up.user = "network_error" \/ up.pages = "network_error"
             THEN Threw("TypeError: fetch failed")
           ELSE [ok |-> TRUE, err |-> NoVal,
                 session |->
                   [userAccessToken |-> accessToken,
                    userId |-> IF up.user = "ok" THEN "user_" \o code ELSE NoVal,
                    expiresAt |-> nowMs + expiresIn * 1000,
                    pageTokens |-> IF up.pages = "ok" THEN {"page_" \o code} ELSE {}]]

(* -------------------------------- state ------------------------------- *)
VARIABLES
  transactions,       \* Map<txnId, OAuthTransaction>
  authCodes,          \* Map<code, AuthCode>
  registeredClients,  \* Map<clientId, {redirectUris, createdAt}>
  tokenStore,         \* Map<jti, {metaTokens, createdAt}>
  now,                \* Date.now()
  nextSweep,          \* when the setInterval callback fires next
  advances,           \* clock advances so far
  nTxn, nCode, nJti, nClient,   \* random identifiers drawn so far
  callbacks,          \* callback handlers suspended in exchangeFacebookCode
  tokenReqs,          \* how many token handlers are suspended in readBody
  issued,             \* history: bearer tokens handed out, with the code redeemed
  minted,             \* history: code -> what the exchanger returned for it
  asked,              \* history: txnId -> the authorize request that stored it
  swept,              \* history: the transaction ids a sweep has removed
  origin,             \* history: code -> the transaction id whose callback minted it
  codec,              \* the token codec exercised on its own (CodecSpec)
  fmt,                \* the page-list formatter exercised on its own (FormatSpec)
  last                \* the handler segment that ran last, and what it sent

tables == << transactions, authCodes, registeredClients, tokenStore >>
clock == << now, nextSweep, advances >>
draws == << nTxn, nCode, nJti, nClient >>
history == << issued, minted, asked, swept, origin >>
vars == << transactions, authCodes, registeredClients, tokenStore, now, nextSweep,
           advances, nTxn, nCode, nJti, nClient, callbacks, tokenReqs, issued,
           minted, asked, swept, origin, codec, fmt, last >>
\* everything but the codec exercise
server == << tables, clock, draws, callbacks, tokenReqs, history, last >>

\* Map operations on functions
EmptyMap == << >>
MapSet(m, k, v) == [x \in DOMAIN m \cup {k} |-> IF x = k THEN v ELSE m[x]]
MapDelete(m, k) == [x \in DOMAIN m \ {k} |-> m[x]]
MapHas(m, k) == k \in DOMAIN m

NoReq == [client_id |-> NoVal, redirect_uri |-> NoVal, response_type |-> NoVal,
          state |-> NoVal, code_challenge |-> NoVal, code |-> NoVal,
          error |-> NoVal, error_description |-> NoVal, grant_type |-> NoVal,
          client_secret |-> NoVal, code_verifier |-> NoVal]
NoTxn == [clientId |-> NoVal, redirectUri |-> NoVal, state |-> NoVal,
          codeChallenge |-> NoVal, createdAt |-> 0]
NoXchg == [ok |-> FALSE, err |-> NoVal, session |-> NoSession]
NoAuth == [ok |-> FALSE, session |-> NoSession]
NoHeader == [scheme |-> NoVal, token |-> NoToken]
NoUp == [step1 |-> NoVal, step2 |-> NoVal, user |-> NoVal, pages |-> NoVal]
NoArgs == [page_id |-> NoVal, instagram_account_id |-> NoVal]
\* a tool call's outcome: nothing yet, a result or a thrown Error, and the
\* Graph API client method it invoked
NoOut == [kind |-> NoVal, text |-> NoVal, upstream |-> NoVal]
NoEvent == [ep |-> "start", method |-> NoVal, req |-> NoReq, resp |-> NoResp,
            txnId |-> NoVal, txn |-> NoTxn, made |-> NoVal, xchg |-> NoXchg,
            up |-> NoUp, header |-> NoHeader, auth |-> NoAuth,
            tool |-> NoVal, args |-> NoArgs, linked |-> {}, out |-> NoOut]
NoFmt == [phase |-> "start", pages |-> << >>, out |-> << >>]

NoCodec == [phase |-> "start", claims |-> << >>, ttl |-> 0, iatMs |-> 0,
            token |-> NoToken, presented |-> NoToken, atMs |-> 0,
            result |-> [valid |-> FALSE, payload |-> NoPayload]]

Init ==
  /\ transactions = EmptyMap
  /\ authCodes = EmptyMap
  /\ registeredClients = EmptyMap
  /\ tokenStore = EmptyMap
  /\ now \in StartTimes
  /\ nextSweep = now + SweepIntervalMs
  /\ advances = 0
  /\ nTxn = 0 /\ nCode = 0 /\ nJti = 0 /\ nClient = 0
  /\ callbacks = EmptyBag
  /\ tokenReqs = 0
  /\ issued = {}
  /\ minted = EmptyMap
  /\ asked = EmptyMap
  /\ swept = {}
  /\ origin = EmptyMap
  /\ codec = NoCodec
  /\ fmt = NoFmt
  /\ last = NoEvent

(* ------------------------------ the clock ----------------------------- *)
\* Time passes.  The clock stops at an instant of the sweep timer, or jumps
\* over whole intervals to a later one: the firings jumped over remove
\* nothing the firing at the end does not remove.
Pass(d, most) ==
  /\ advances < most
  /\ nTxn <= MaxTimedTxn
  /\ now < nextSweep
  /\ \/ now + d <= nextSweep
     \/ (now + d - nextSweep) % SweepIntervalMs = 0
  /\ now' = now + d
  /\ advances' = advances + 1
  /\ last' = [NoEvent EXCEPT !.ep = "advance"]
  /\ UNCHANGED << codec, fmt, tables, nextSweep, draws, callbacks, tokenReqs, history >>

Advance(d) == Pass(d, MaxAdvances)

\* a sweep that removes an entry as soon as its age reaches the TTL
ExpiredAtTtl(m, ttl, t) == {k \in DOMAIN m : t - m[k].createdAt >= ttl}
\* a sweep that removes nothing
SweptNothing(m, ttl, t) == m

Expired(m, ttl, t) == {k \in DOMAIN m : t - m[k].createdAt > ttl}
Swept(m, ttl, t) == [k \in DOMAIN m \ Expired(m, ttl, t) |-> m[k]]

\* the setInterval callback
Sweep ==
  /\ now >= nextSweep
  /\ transactions' = Swept(transactions, TxnTtlMs, now)
  /\ authCodes' = Swept(authCodes, CodeTtlMs, now)
  /\ tokenStore' = Swept(tokenStore, TokenTtlMs, now)
  /\ nextSweep' = now + SweepIntervalMs
  /\ last' = [NoEvent EXCEPT !.ep = "sweep"]
  /\ UNCHANGED << codec, fmt, registeredClients, now, advances, draws, callbacks, tokenReqs,
                  issued, minted, asked, origin >>
  /\ swept' = swept \cup Expired(transactions, TxnTtlMs, now)

(* ------------------------------ requests ------------------------------ *)
Event(ep, m, q, r) == [NoEvent EXCEPT !.ep = ep, !.method = m, !.req = q, !.resp = r]
Suspended == BagCardinality(callbacks) + tokenReqs

AuthorizeBase ==
  [NoReq EXCEPT !.client_id = "c1", !.redirect_uri = "https://a/cb",
                !.response_type = "code", !.state = "s1"]
AuthorizeRequests ==
  {AuthorizeBase,
   [AuthorizeBase EXCEPT !.client_id = "c2", !.redirect_uri = "https://b/cb",
                         !.state = NoVal, !.code_challenge = "ch"],
   [AuthorizeBase EXCEPT !.client_id = "c2", !.redirect_uri = "notaurl", !.state = "s2"],
   [AuthorizeBase EXCEPT !.client_id = NoVal],
   [AuthorizeBase EXCEPT !.redirect_uri = ""],
   [AuthorizeBase EXCEPT !.response_type = "token"]}

\* the transaction ids and codes the server has handed out so far
KnownCodes == {CodeIdOf(n) : n \in 1..nCode}

\* the upstream's redirects for the logins begun so far (with a code, or with
\* an error when the user denied consent), and requests that are not the
\* upstream's: an unknown state, a missing state, a missing code
CallbackRequests ==
  {[NoReq EXCEPT !.code = UpstreamCodeOf(n), !.state = TxnIdOf(n)] : n \in 1..nTxn}
  \cup {[NoReq EXCEPT !.state = TxnIdOf(n), !.error = "access_denied",
                      !.error_description = "denied by user"] : n \in 1..nTxn}
  \cup {[NoReq EXCEPT !.code = UpstreamCodeOf(0), !.state = "bogus"],
        [NoReq EXCEPT !.state = "bogus", !.error = "access_denied",
                      !.error_description = "denied by user"],
        [NoReq EXCEPT !.code = UpstreamCodeOf(0)]}

TokenRequests ==
  {[NoReq EXCEPT !.grant_type = "authorization_code", !.code = c] :
     c \in KnownCodes \cup {"bogus", NoVal}}
  \cup {[NoReq EXCEPT !.grant_type = "refresh_token", !.code = "bogus"]}

\* a registration body: not JSON, or a JSON object with redirect_uris
RegisterBodies ==
  {[json |-> FALSE, has_uris |-> FALSE, redirect_uris |-> << >>],
   [json |-> TRUE, has_uris |-> TRUE, redirect_uris |-> << "https://a/cb" >>]}

(* --------------------- requests no endpoint works on ------------------ *)
\* the listener's dispatch for a request that reaches no endpoint's code:
\* the CORS preflight, the two static documents, and 404
StaticResponse(m, path) ==
  IF m = "OPTIONS" THEN Preflight
  ELSE IF path \in {"/.well-known/oauth-authorization-server", "/health"} THEN JsonOk
  ELSE NotFound

Static(m, path) ==
  /\ \/ m = "OPTIONS"
     \/ path \in {"/.well-known/oauth-authorization-server", "/health", "/other"}
     \/ path \in {"/oauth/register", "/oauth/token"} /\ m # "POST"
  /\ last' = Event("static", NoVal, NoReq, StaticResponse(m, path))
  /\ UNCHANGED << codec, fmt, tables, clock, draws, callbacks, tokenReqs, history >>

(* ------------------------- dynamic registration ----------------------- *)
NewClient(b, t) ==
  [redirectUris |-> IF b.has_uris THEN b.redirect_uris ELSE << >>, createdAt |-> t]

\* POST /oauth/register, resumed with the body
Register(b) ==
  /\ UNCHANGED << codec, fmt, transactions, authCodes, tokenStore, clock, nTxn, nCode, nJti,
                  callbacks, tokenReqs, history >>
  /\ IF ~b.json
       \* JSON.parse throws in the async listener: nothing is sent
       THEN /\ last' = Event("register", "POST", NoReq, NoResp)
            /\ UNCHANGED << registeredClients, nClient >>
       ELSE /\ nClient < MaxClients
            /\ nClient' = nClient + 1
            /\ registeredClients' =
                 MapSet(registeredClients, ClientIdOf(nClient + 1), NewClient(b, now))
            /\ last' = [Event("register", "POST", NoReq, JsonOk) EXCEPT
                          !.made = ClientIdOf(nClient + 1)]

(* ------------------------------ authorize ----------------------------- *)
\* a parameter check that wants the client registered with that redirect URI
AuthorizeInvalidUnregistered(q) ==
  \/ ~Truthy(q.client_id) \/ ~Truthy(q.redirect_uri) \/ q.response_type # "code"
  \/ ~MapHas(registeredClients, q.client_id)
  \/ \A i \in DOMAIN registeredClients[q.client_id].redirectUris :
       registeredClients[q.client_id].redirectUris[i] # q.redirect_uri

\* a parameter check that accepts any response type
AuthorizeInvalidAnyType(q) == ~Truthy(q.client_id) \/ ~Truthy(q.redirect_uri)

AuthorizeInvalid(q) ==
  ~Truthy(q.client_id) \/ ~Truthy(q.redirect_uri) \/ q.response_type # "code"

NewTransaction(q, rnd, t) ==
  [clientId |-> q.client_id,
   redirectUri |-> q.redirect_uri,
   state |-> IF Truthy(q.state) THEN q.state ELSE rnd,
   codeChallenge |-> IF Truthy(q.code_challenge) THEN q.code_challenge ELSE NoVal,
   createdAt |-> t]

\* an upstream redirect that does not carry the transaction id
FacebookAuthUrlNoState(txnId) ==
  [NoLoc EXCEPT !.base = FACEBOOK_AUTH_ENDPOINT, !.redirect_uri = OwnCallbackUri]

FacebookAuthUrl(txnId) ==
  [NoLoc EXCEPT !.base = FACEBOOK_AUTH_ENDPOINT, !.redirect_uri = OwnCallbackUri,
                !.state = txnId]

\* /oauth/authorize, any method but OPTIONS
Authorize(q) ==
  /\ UNCHANGED << codec, fmt, authCodes, registeredClients, tokenStore, clock, nCode, nJti,
                  nClient, callbacks, tokenReqs, issued, minted, swept, origin >>
  /\ IF AuthorizeInvalid(q)
       THEN /\ last' = Event("authorize", "GET", q,
                             JsonError(400, "invalid_request", "Missing required parameters"))
            /\ UNCHANGED << transactions, nTxn, asked >>
       ELSE /\ nTxn < (IF advances = 0 THEN MaxTxn ELSE MaxTimedTxn)
            /\ nTxn' = nTxn + 1
            /\ transactions' = MapSet(transactions, TxnIdOf(nTxn + 1),
                                      NewTransaction(q, RandomState(nTxn + 1), now))
            /\ asked' = MapSet(asked, TxnIdOf(nTxn + 1), q)
            /\ last' = [Event("authorize", "GET", q,
                              Redirect(FacebookAuthUrl(TxnIdOf(nTxn + 1))))
                          EXCEPT !.made = TxnIdOf(nTxn + 1)]

(* ------------------------------ callback ------------------------------ *)
\* a callback that looks the transaction up before anything else
CallbackEarlyLookupFirst(q, txns) ==
  IF ~Truthy(q.state) \/ ~MapHas(txns, q.state)
    THEN JsonError(400, "invalid_request", "Invalid or expired state")
  ELSE IF Truthy(q.error)
    THEN JsonError(400, q.error, q.error_description)
  ELSE IF ~Truthy(q.code)
    THEN JsonError(400, "invalid_request", "Missing code or state")
  ELSE NoResp

\* the part of the callback handler before the exchange: the response it
\* sends at once, or NoResp when it goes on to the exchange
CallbackEarly(q, txns) ==
  IF Truthy(q.error)
    THEN JsonError(400, q.error, q.error_description)
  ELSE IF ~Truthy(q.code) \/ ~Truthy(q.state)
    THEN JsonError(400, "invalid_request", "Missing code or state")
  ELSE IF ~MapHas(txns, q.state)
    THEN JsonError(400, "invalid_request", "Invalid or expired state")
  ELSE NoResp

\* /oauth/callback, any method but OPTIONS, up to the await
Callback(q) ==
  /\ UNCHANGED << codec, fmt, tables, clock, draws, tokenReqs, history >>
  /\ IF CallbackEarly(q, transactions) # NoResp
       THEN /\ last' = Event("callback", "GET", q, CallbackEarly(q, transactions))
            /\ UNCHANGED callbacks
       ELSE \* const txn = transactions.get(txnId); await exchangeFacebookCode(...)
            /\ Suspended < MaxInflight
            /\ callbacks' = callbacks (+) SetToBag({[req |-> q, txn |-> transactions[q.state]]})
            /\ last' = [Event("callback", "GET", q, NoResp) EXCEPT
                          !.txnId = q.state, !.txn = transactions[q.state]]

NewAuthCode(txn, metaTokens, t) ==
  [clientId |-> txn.clientId, redirectUri |-> txn.redirectUri,
   metaTokens |-> metaTokens, createdAt |-> t, used |-> FALSE]

SuccessRedirect(txn, ourCode) ==
  [NoLoc EXCEPT !.base = txn.redirectUri, !.code = ourCode, !.state = txn.state]

\* an error redirect that leaves the state out
ErrorRedirectNoState(txn, err) ==
  [NoLoc EXCEPT !.base = txn.redirectUri, !.error = "server_error",
                !.error_description = err]

ErrorRedirect(txn, err) ==
  [NoLoc EXCEPT !.base = txn.redirectUri, !.error = "server_error",
                !.error_description = err, !.state = txn.state]

\* new URL(txn.redirectUri) throws for an unparseable URI; in the try block
\* the catch block runs, where it throws again and nothing is sent
ClientRedirect(txn, loc) ==
  IF ParsesAsUrl(txn.redirectUri) THEN Redirect(loc) ELSE NoResp

\* the transactions table after the exchange: deleted on success only
AfterExchange(txns, txnId, ok) == IF ok THEN MapDelete(txns, txnId) ELSE txns

\* the callback handler resumed when exchangeFacebookCode settles
ExchangeDone(cb, up) ==
  LET r == exchangeFacebookCode(cb.req.code, up, now)
      ourCode == CodeIdOf(nCode + 1)
      ev == [Event("exchange", "GET", cb.req, NoResp) EXCEPT
               !.txnId = cb.req.state, !.txn = cb.txn, !.xchg = r, !.up = up]
  IN  /\ BagIn(cb, callbacks)
      /\ callbacks' = callbacks (-) SetToBag({cb})
      /\ transactions' = AfterExchange(transactions, cb.req.state, r.ok)
      /\ UNCHANGED << codec, fmt, registeredClients, tokenStore, clock, nTxn, nJti, nClient,
                      tokenReqs, issued, asked, swept >>
      /\ IF r.ok
           THEN /\ nCode < MaxCodes
                /\ nCode' = nCode + 1
                /\ authCodes' = MapSet(authCodes, ourCode, NewAuthCode(cb.txn, r.session, now))
                /\ minted' = MapSet(minted, ourCode, r.session)
                /\ origin' = MapSet(origin, ourCode, cb.req.state)
                /\ last' = [ev EXCEPT !.made = ourCode,
                              !.resp = ClientRedirect(cb.txn, SuccessRedirect(cb.txn, ourCode))]
           ELSE /\ UNCHANGED << authCodes, nCode, minted, origin >>
                /\ last' = [ev EXCEPT
                              !.resp = ClientRedirect(cb.txn, ErrorRedirect(cb.txn, r.err))]

(* ---------------------------- token endpoint -------------------------- *)
FACEBOOK_SCOPES == "pages_show_list ... instagram_manage_insights"

\* POST /oauth/token arrives; the handler awaits readBody(), knowing nothing
\* of the body yet
TokenRecv ==
  /\ Suspended < MaxInflight
  /\ tokenReqs' = tokenReqs + 1
  /\ last' = Event("token_recv", "POST", NoReq, NoResp)
  /\ UNCHANGED << codec, fmt, tables, clock, draws, callbacks, history >>

\* a redemption that forgets to mark the code
MarkUsedForgets(authCode) == authCode

\* authCode.used = true; authCodes.set(code, authCode)
MarkUsed(authCode) == [authCode EXCEPT !.used = TRUE]

\* a token endpoint that takes an unknown code for a missing one
TokenRejectUnknownAsMissing(b, codes) ==
  IF b.grant_type # "authorization_code"
    THEN JsonError(400, "unsupported_grant_type", NoVal)
  ELSE IF ~Truthy(b.code) \/ ~MapHas(codes, b.code)
    THEN JsonError(400, "invalid_request", "Missing code")
  ELSE IF codes[b.code].used
    THEN JsonError(400, "invalid_grant", "Code already used")
  ELSE NoResp

\* a token endpoint that redeems a code only for the client it is bound to
TokenRejectBoundClient(b, codes) ==
  IF b.grant_type # "authorization_code"
    THEN JsonError(400, "unsupported_grant_type", NoVal)
  ELSE IF ~Truthy(b.code)
    THEN JsonError(400, "invalid_request", "Missing code")
  ELSE IF ~MapHas(codes, b.code) \/ codes[b.code].clientId # b.client_id
    THEN JsonError(400, "invalid_grant", "Invalid or expired code")
  ELSE IF codes[b.code].used
    THEN JsonError(400, "invalid_grant", "Code already used")
  ELSE NoResp

\* a token endpoint without the replay check
TokenRejectNoReplay(b, codes) ==
  IF b.grant_type # "authorization_code"
    THEN JsonError(400, "unsupported_grant_type", NoVal)
  ELSE IF ~Truthy(b.code)
    THEN JsonError(400, "invalid_request", "Missing code")
  ELSE IF ~MapHas(codes, b.code)
    THEN JsonError(400, "invalid_grant", "Invalid or expired code")
  ELSE NoResp

\* what the handler answers without redeeming, or NoResp when it redeems
TokenReject(b, codes) ==
  IF b.grant_type # "authorization_code"
    THEN JsonError(400, "unsupported_grant_type", NoVal)
  ELSE IF ~Truthy(b.code)
    THEN JsonError(400, "invalid_request", "Missing code")
  ELSE IF ~MapHas(codes, b.code)
    THEN JsonError(400, "invalid_grant", "Invalid or expired code")
  ELSE IF codes[b.code].used
    THEN JsonError(400, "invalid_grant", "Code already used")
  ELSE NoResp

NewTokenRecord(authCode, t) == [metaTokens |-> authCode.metaTokens, createdAt |-> t]

TokenResponse(accessToken) ==
  [JsonOk EXCEPT !.access_token = accessToken, !.token_type = "Bearer",
                 !.expires_in = TokenTtlSec]

\* the token handler resumed with the body: runs to its response with no await
TokenProcess(b) ==
  LET jti == JtiOf(nJti + 1)
      accessToken == createJWT([sub |-> jti, scope |-> FACEBOOK_SCOPES], TokenTtlSec,
                               now, JtiOf(nJti + 2))
  IN  /\ tokenReqs > 0
      /\ tokenReqs' = tokenReqs - 1
      /\ UNCHANGED << codec, fmt, transactions, registeredClients, clock, nTxn, nCode, nClient,
                      callbacks, minted, asked, swept, origin >>
      /\ IF TokenReject(b, authCodes) # NoResp
           THEN /\ last' = Event("token", "POST", b, TokenReject(b, authCodes))
                /\ UNCHANGED << authCodes, tokenStore, nJti, issued >>
           ELSE /\ authCodes' = MapSet(authCodes, b.code, MarkUsed(authCodes[b.code]))
                /\ nJti' = nJti + 2
                /\ tokenStore' = MapSet(tokenStore, jti, NewTokenRecord(authCodes[b.code], now))
                /\ issued' = issued \cup {[token |-> accessToken, sub |-> jti, code |-> b.code]}
                /\ last' = [Event("token", "POST", b, TokenResponse(accessToken)) EXCEPT
                              !.made = jti]

(* ---------------------------- session resolver ------------------------ *)
\* what a caller may put after "Bearer ": a token it was issued, or one made
\* from it by replacing the sub claim, re-signing with another key, cutting
\* the signature off or appending a segment
Resub(tok, sub) == << tok[1], Encode([tok[2].obj EXCEPT !.sub = sub]), tok[3] >>
Resign(tok, key) == << tok[1], tok[2], Hmac(key, tok[1], tok[2]) >>
PresentableTokens ==
  LET toks == {i.token : i \in issued}
      subs == {i.sub : i \in issued}
  IN  toks \cup {Resub(t, s) : t \in toks, s \in subs}
           \cup {Resign(t, "guess") : t \in toks}
           \cup {SubSeq(t, 1, 2) : t \in toks}
           \cup {Append(t, Raw("extra")) : t \in toks}
AuthHeaders ==
  {NoHeader}
    \cup {[scheme |-> "Bearer", token |-> t] : t \in PresentableTokens}

\* a resolver that keeps one session for the process: whichever record it
\* finds first, not the one the token names
authenticateShared(h, store, t) ==
  IF h.scheme # "Bearer" THEN NoAuth
  ELSE LET result == verifyJWT(h.token, t)
       IN  IF ~result.valid \/ ~Truthy(Get(result.payload, "sub")) THEN NoAuth
           ELSE IF DOMAIN store = {} THEN NoAuth
           ELSE [ok |-> TRUE, session |-> store[CHOOSE k \in DOMAIN store : TRUE].metaTokens]

authenticate(h, store, t) ==
  IF h.scheme # "Bearer" THEN NoAuth
  ELSE LET result == verifyJWT(h.token, t)
       IN  IF ~result.valid \/ ~Truthy(Get(result.payload, "sub")) THEN NoAuth
           ELSE IF ~MapHas(store, result.payload.sub) THEN NoAuth
           ELSE [ok |-> TRUE, session |-> store[result.payload.sub].metaTokens]

Authenticate(h) ==
  /\ last' = [NoEvent EXCEPT !.ep = "authenticate", !.header = h,
                             !.auth = authenticate(h, tokenStore, now)]
  /\ UNCHANGED << codec, fmt, tables, clock, draws, callbacks, tokenReqs, history >>

(* ------------------------ the codec on its own ------------------------ *)
\* claims a caller passes to createJWT: the token endpoint's, some without
\* sub, and some that name a claim createJWT writes itself
ClaimSets ==
  {[sub |-> "j0", scope |-> FACEBOOK_SCOPES],
   [scope |-> FACEBOOK_SCOPES],
   [sub |-> "", scope |-> FACEBOOK_SCOPES],
   [sub |-> "j0", exp |-> 5]}
\* expiresIn (s)
Ttls == {1, 2, 3600}
\* Date.now() at createJWT (ms): on the whole second, and just before the next
IssueTimes == {1000, 1999}
\* time between createJWT and verifyJWT (ms)
Elapsed == {0, 999, 1000, 1001, 1500, 2000, 2001, 3000, 3599000, 3600000, 3600500, 3601000}

\* the payload segment of a token changed, header and signature kept
TamperPayload(tok) ==
  << tok[1], Encode([tok[2].obj EXCEPT !.exp = @ + 1000000]), tok[3] >>
\* a token whose payload segment is not JSON, signed with the key k
SignedGarbage(tok, k) == << tok[1], Raw("notjson"), Hmac(k, tok[1], Raw("notjson")) >>
\* strings that may be given to verifyJWT once tok has been issued
TokenStrings(tok) ==
  {tok, TamperPayload(tok), Resign(tok, "guess"),
   << tok[1], Raw("notjson"), tok[3] >>, SignedGarbage(tok, JWT_SECRET),
   << Raw("") >>, SubSeq(tok, 1, 1), SubSeq(tok, 1, 2),
   Append(tok, Raw("extra")), Append(Append(tok, Raw("extra")), Raw("more"))}

Presentable == IF codec.phase = "start" THEN {} ELSE TokenStrings(codec.token)

\* createJWT(claims, ttl) at time t
Issue(claims, ttl, t) ==
  /\ codec.phase = "start"
  /\ codec' = [NoCodec EXCEPT !.phase = "issued", !.claims = claims, !.ttl = ttl,
                              !.iatMs = t,
                              !.token = createJWT(claims, ttl, t, JtiOf(1))]
  /\ UNCHANGED << server, fmt >>

\* verifyJWT(tok) after d ms
Verify(tok, d) ==
  /\ codec.phase # "start"
  /\ codec' = [codec EXCEPT !.phase = "verified", !.presented = tok,
                            !.atMs = codec.iatMs + d,
                            !.result = verifyJWT(tok, codec.iatMs + d)]
  /\ UNCHANGED << server, fmt >>

CodecNext ==
  \/ \E claims \in ClaimSets, ttl \in Ttls, t \in IssueTimes : Issue(claims, ttl, t)
  \/ \E tok \in Presentable, d \in Elapsed : Verify(tok, d)

CodecSpec == Init /\ [][CodecNext]_vars

(* ---------------------------- specification --------------------------- *)
Next ==
  \/ \E d \in Delays : Advance(d)
  \/ Sweep
  \/ \E r \in StaticRequests : Static(r[1], r[2])
  \/ \E b \in RegisterBodies : Register(b)
  \/ \E q \in AuthorizeRequests : Authorize(q)
  \/ \E q \in CallbackRequests : Callback(q)
  \/ \E cb \in BagToSet(callbacks), up \in UpstreamBehaviours : ExchangeDone(cb, up)
  \/ TokenRecv
  \/ \E b \in TokenRequests : TokenProcess(b)
  \/ \E h \in AuthHeaders : Authenticate(h)

Spec == Init /\ [][Next]_vars

(* ------------------- the exchange against the upstream ---------------- *)
\* every way the four upstream calls can go
AllBehaviours ==
  [step1 : CallOutcomes, step2 : CallOutcomes, user : CallOutcomes, pages : CallOutcomes]
\* the upstream's redirects with a code for the logins begun so far
CodeCallbacks ==
  {[NoReq EXCEPT !.code = UpstreamCodeOf(n), !.state = TxnIdOf(n)] : n \in 1..nTxn}

ExchangeNext ==
  \/ Authorize(AuthorizeBase)
  \/ \E q \in CodeCallbacks : Callback(q)
  \/ \E cb \in BagToSet(callbacks), up \in AllBehaviours : ExchangeDone(cb, up)

ExchangeSpec == Init /\ [][ExchangeNext]_vars

(* ----------------- token records against the sweep timer -------------- *)
\* clock advances in a run of ClockSpec
MaxPasses == 2
\* to the end of a whole second just before a tick, and from there to the
\* first tick at which a record made then is older than its TTL
ClockDelays == {59999, 3600001}

ClockNext ==
  \/ \E d \in ClockDelays : Pass(d, MaxPasses)
  \/ Sweep
  \/ Authorize(AuthorizeBase)
  \/ \E q \in CodeCallbacks : Callback(q)
  \/ \E cb \in BagToSet(callbacks) : ExchangeDone(cb, AllOk)
  \/ TokenRecv
  \/ \E b \in TokenRequests : TokenProcess(b)
  \/ \E h \in AuthHeaders : Authenticate(h)

ClockSpec == Init /\ [][ClockNext]_vars

(* ------------------- clients, registered and not ---------------------- *)
\* authorize requests naming the registered client with a redirect URI it
\* registered and with one it did not, and a client that never registered
ClientAuthorizeRequests ==
  {[AuthorizeBase EXCEPT !.client_id = ClientIdOf(1)],
   [AuthorizeBase EXCEPT !.client_id = ClientIdOf(1), !.redirect_uri = "https://b/cb",
                         !.code_challenge = "ch"],
   AuthorizeBase}
\* what a token request carries besides grant_type and code: nothing, the
\* registered client with a verifier, or another client with its own values
TokenCredentials ==
  {NoReq,
   [NoReq EXCEPT !.client_id = ClientIdOf(1), !.client_secret = ClientIdOf(1),
                 !.redirect_uri = "https://a/cb", !.code_verifier = "v"],
   [NoReq EXCEPT !.client_id = "c9", !.client_secret = "guess",
                 !.redirect_uri = "https://c9/cb", !.code_verifier = "wrong"]}
ClientTokenRequests ==
  {[cr EXCEPT !.grant_type = "authorization_code", !.code = c] :
     cr \in TokenCredentials, c \in KnownCodes \cup {"bogus"}}
  \cup {[cr EXCEPT !.grant_type = "refresh_token", !.code = c] :
          cr \in TokenCredentials, c \in KnownCodes}

ClientNext ==
  \/ \E b \in RegisterBodies : Register(b)
  \/ \E q \in ClientAuthorizeRequests : Authorize(q)
  \/ \E q \in CodeCallbacks : Callback(q)
  \/ \E cb \in BagToSet(callbacks) : ExchangeDone(cb, AllOk)
  \/ TokenRecv
  \/ \E b \in ClientTokenRequests : TokenProcess(b)

ClientSpec == Init /\ [][ClientNext]_vars

(* -------------------------------- tools ------------------------------- *)
Tools ==
  {"test_connection", "get_my_pages", "get_page", "create_page_post", "get_page_posts",
   "get_post", "delete_post", "get_post_comments", "reply_to_comment", "delete_comment",
   "upload_photo", "get_page_insights", "get_post_insights", "get_instagram_account",
   "get_instagram_media", "create_instagram_post", "get_instagram_comments",
   "reply_to_instagram_comment", "get_instagram_insights"}
\* tools that pass an undefined page token on
OptionalPageToken == {"get_page", "get_post"}
\* tools that fall back on the page's linked Instagram account
WantsInstagramAccount ==
  {"get_instagram_media", "create_instagram_post", "get_instagram_insights"}

Result(text) == [kind |-> "result", text |-> text, upstream |-> NoVal]
Throw(msg) == [kind |-> "error", text |-> msg, upstream |-> NoVal]
\* await client.<method>(...) and the formatted answer
Upstream(name) == [kind |-> "result", text |-> "formatted", upstream |-> name]

\* a tool that never looks at the session
executeUnchecked(name, auth, args, linked) == Upstream(name)

\* execute(args, {session}) of the tool called name; auth is what the
\* resolver returned, linked the pages of the session with a linked
\* Instagram account
execute(name, auth, args, linked) ==
  IF name = "test_connection"
    THEN Result(IF Truthy(auth.session.userAccessToken) THEN "Status: Authenticated"
                ELSE "Status: Not authenticated")
  ELSE IF ~Truthy(auth.session.userAccessToken) THEN Throw("Not authenticated")
  ELSE IF name = "get_my_pages" THEN Upstream(name)
  ELSE IF name \notin OptionalPageToken /\ args.page_id \notin auth.session.pageTokens
    THEN Throw("No access token for page")
  ELSE IF /\ name \in WantsInstagramAccount
          /\ ~Truthy(args.instagram_account_id)
          /\ args.page_id \notin linked
    THEN Throw("No Instagram account ID provided and no linked account found")
  ELSE Upstream(name)

\* what the resolver hands to a tool: undefined, or a credential set
ToolSessions ==
  {NoAuth,
   [ok |-> TRUE, session |-> [NoSession EXCEPT !.userAccessToken = "long_u1",
                                               !.userId = "user_u1"]],
   [ok |-> TRUE, session |-> [NoSession EXCEPT !.userAccessToken = "long_u1",
                                               !.userId = "user_u1",
                                               !.pageTokens = {"page_u1"}]]}
ToolArgs ==
  {[NoArgs EXCEPT !.page_id = "page_u1"],
   [NoArgs EXCEPT !.page_id = "page_u1", !.instagram_account_id = "ig1"],
   [NoArgs EXCEPT !.page_id = "page_u9"]}

ToolCall(name, auth, args, linked) ==
  /\ last' = [NoEvent EXCEPT !.ep = "tool", !.tool = name, !.auth = auth, !.args = args,
                             !.linked = linked,
                             !.out = execute(name, auth, args, linked)]
  /\ UNCHANGED << tables, clock, draws, callbacks, tokenReqs, history, codec, fmt >>

ToolNext ==
  \E name \in Tools, auth \in ToolSessions, args \in ToolArgs, linked \in {{}, {"page_u1"}} :
    ToolCall(name, auth, args, linked)

ToolSpec == Init /\ [][ToolNext]_vars

(* ------------------------------ formatters ---------------------------- *)
\* pages in a list given to formatPageList
MaxPages == 3
\* number.toLocaleString() of a count below 1000
LocaleString(n) == ToString(n)
PageSamples ==
  {[id |-> "1", name |-> "Page One", category |-> "Business", hasFans |-> TRUE,
    fanCount |-> 100, ig |-> NoVal],
   [id |-> "2", name |-> "Page Two", category |-> "Entertainment", hasFans |-> TRUE,
    fanCount |-> 200, ig |-> NoVal],
   [id |-> "3", name |-> "Page One", category |-> NoVal, hasFans |-> FALSE,
    fanCount |-> 0, ig |-> "ig3"],
   [id |-> "4", name |-> "", category |-> "", hasFans |-> TRUE,
    fanCount |-> 0, ig |-> NoVal],
   [id |-> "5", name |-> "Shop", category |-> "Retail", hasFans |-> FALSE,
    fanCount |-> 0, ig |-> "ig5"]}
PageLists == UNION {[1..n -> PageSamples] : n \in 0..MaxPages}

\* the lines that forEach pushes for the page at index i - 1, numbered from 0
PageSectionFromZero(page, i) ==
  << "## " \o ToString(i - 1) \o ". " \o page.name,
     "- **ID**: " \o page.id,
     "- **Category**: " \o (IF Truthy(page.category) THEN page.category ELSE "N/A"),
     "- **Fans**: " \o (IF page.hasFans /\ LocaleString(page.fanCount) # ""
                          THEN LocaleString(page.fanCount) ELSE "N/A") >>
    \o (IF Truthy(page.ig) THEN << "- **Instagram**: Connected (" \o page.ig \o ")" >>
        ELSE << >>)
    \o << "" >>

\* the lines that forEach pushes for the page at index i - 1
PageSection(page, i) ==
  << "## " \o ToString(i) \o ". " \o page.name,
     "- **ID**: " \o page.id,
     "- **Category**: " \o (IF Truthy(page.category) THEN page.category ELSE "N/A"),
     "- **Fans**: " \o (IF page.hasFans /\ LocaleString(page.fanCount) # ""
                          THEN LocaleString(page.fanCount) ELSE "N/A") >>
    \o (IF Truthy(page.ig) THEN << "- **Instagram**: Connected (" \o page.ig \o ")" >>
        ELSE << >>)
    \o << "" >>

RECURSIVE PageSections(_, _)
PageSections(pages, i) ==
  IF i > Len(pages) THEN << >>
  ELSE PageSection(pages[i], i) \o PageSections(pages, i + 1)

\* the returned string is the sequence of the lines joined by "\n"
formatPageList(pages) ==
  IF Len(pages) = 0 THEN << "No pages found." >>
  ELSE << "# Your Facebook Pages (" \o ToString(Len(pages)) \o ")", "" >>
         \o PageSections(pages, 1)

Format(pages) ==
  /\ fmt.phase = "start"
  /\ fmt' = [phase |-> "done", pages |-> pages, out |-> formatPageList(pages)]
  /\ UNCHANGED << server, codec >>

FormatNext == \E pages \in PageLists : Format(pages)

FormatSpec == Init /\ [][FormatNext]_vars

(* ------------------------------- claims ------------------------------- *)
Redeemed == {i.code : i \in issued}
IsJsonError(r, e) == r.status = 400 /\ r.error = e /\ r.loc = NoLoc
KnownTxnIds == {TxnIdOf(n) : n \in 1..nTxn}

\* C1: once a code has been redeemed, every later authorization_code request
\* with that code is answered 400 invalid_grant, carries no bearer token and
\* adds nothing to the token store, whether the code is still stored (marked
\* used) or has been swept.
C1_SingleUse ==
  [][ (/\ last'.ep = "token"
       /\ last'.req.grant_type = "authorization_code"
       /\ last'.req.code \in Redeemed)
      => (/\ IsJsonError(last'.resp, "invalid_grant")
          /\ last'.resp.access_token = NoToken
          /\ tokenStore' = tokenStore
          /\ issued' = issued) ]_vars
\* a redeemed code that has been swept is presented again and refused
C1_Witness ==
  /\ last.ep = "token"
  /\ last.req.code \in Redeemed
  /\ ~MapHas(authCodes, last.req.code)
  /\ IsJsonError(last.resp, "invalid_grant")

\* C2: whatever the interleaving of the token handlers, at most one bearer
\* token is issued and at most one token record is created for a code.
C2_OneTokenPerCode ==
  /\ \A i, j \in issued : i.code = j.code => i = j
  /\ \A k \in DOMAIN tokenStore : Cardinality({i \in issued : i.sub = k}) = 1
\* a token handler redeems a code while another one is suspended in readBody
C2_Witness ==
  /\ last.ep = "token"
  /\ last.resp.status = 200
  /\ tokenReqs > 0

\* C3: when the resolver returns a credential set, the three segments it read
\* of the presented token are a token the token endpoint issued, and the set
\* is the one the exchanger returned in the callback that minted the code
\* redeemed for that token.
C3_SessionIsolation ==
  (last.ep = "authenticate" /\ last.auth.ok)
    => \E i \in issued : /\ i.token = SubSeq(last.header.token, 1, 3)
                         /\ last.auth.session = minted[i.code]
\* two flows hold tokens for different credential sets, and one is resolved
C3_Witness ==
  /\ last.ep = "authenticate"
  /\ last.auth.ok
  /\ \E i, j \in issued : /\ minted[i.code] # minted[j.code]
                          /\ MapHas(tokenStore, i.sub)
                          /\ MapHas(tokenStore, j.sub)

\* C4: an authorize request with a client_id, a redirect_uri and
\* response_type=code stores exactly one new transaction under an id never
\* used before, holding the request's client id, redirect URI and state, and
\* is answered 302 to the upstream endpoint with state = that id and
\* redirect_uri = the server's own callback, not the client's.
C4_AuthorizeStores ==
  [][ (/\ last'.ep = "authorize"
       /\ Truthy(last'.req.client_id)
       /\ Truthy(last'.req.redirect_uri)
       /\ last'.req.response_type = "code")
      => (/\ last'.made \notin KnownTxnIds
          /\ DOMAIN transactions' = DOMAIN transactions \cup {last'.made}
          /\ \A k \in DOMAIN transactions : transactions'[k] = transactions[k]
          /\ transactions'[last'.made].clientId = last'.req.client_id
          /\ transactions'[last'.made].redirectUri = last'.req.redirect_uri
          /\ Truthy(last'.req.state) => transactions'[last'.made].state = last'.req.state
          /\ last'.resp.status = 302
          /\ last'.resp.loc.base = FACEBOOK_AUTH_ENDPOINT
          /\ last'.resp.loc.state = last'.made
          /\ last'.resp.loc.redirect_uri = OwnCallbackUri
          /\ last'.resp.loc.redirect_uri # last'.req.redirect_uri) ]_vars
\* a second transaction is stored while the first is still pending
C4_Witness ==
  /\ last.ep = "authorize"
  /\ last.resp.status = 302
  /\ Cardinality(DOMAIN transactions) = 2

\* C5: an authorize request without client_id, without redirect_uri or with a
\* response_type other than "code" is answered 400 invalid_request, not a
\* redirect, and changes none of the four tables.
C5_AuthorizeRejects ==
  [][ (/\ last'.ep = "authorize"
       /\ \/ ~Truthy(last'.req.client_id)
          \/ ~Truthy(last'.req.redirect_uri)
          \/ last'.req.response_type # "code")
      => (/\ IsJsonError(last'.resp, "invalid_request")
          /\ UNCHANGED tables) ]_vars
\* a request with the wrong response type is refused while a transaction is stored
C5_Witness ==
  /\ last.ep = "authorize"
  /\ last.req.response_type = "token"
  /\ last.resp.status = 400
  /\ DOMAIN transactions # {}

\* C6 as stated: a callback whose state names no stored transaction is
\* answered 400 invalid_request.
C6_Original ==
  (last.ep = "callback" /\ ~MapHas(transactions, last.req.state))
    => IsJsonError(last.resp, "invalid_request")
\* C6: a callback whose state names no stored transaction is answered with a
\* direct 400 JSON error, never a redirect: the upstream's error code when the
\* request carries one, invalid_request otherwise; no handler is left in the
\* exchanger, no code is minted and no table changes.
C6_UnknownState ==
  [][ (last'.ep = "callback" /\ ~MapHas(transactions, last'.req.state))
      => (/\ IsJsonError(last'.resp, IF Truthy(last'.req.error) THEN last'.req.error
                                      ELSE "invalid_request")
          /\ callbacks' = callbacks
          /\ nCode' = nCode
          /\ minted' = minted
          /\ UNCHANGED tables) ]_vars
\* the upstream's redirect for a transaction that is no longer stored
C6_Witness ==
  /\ last.ep = "callback"
  /\ last.req.state \in KnownTxnIds
  /\ Truthy(last.req.code)
  /\ ~MapHas(transactions, last.req.state)
  /\ IsJsonError(last.resp, "invalid_request")

\* C7 as stated: a callback whose exchange succeeds stores one new unused code
\* bound to the transaction's client id and redirect URI and to the
\* exchanger's credential set, and answers 302 to the transaction's redirect
\* URI with that code.
C7_Claim ==
  (last.ep = "exchange" /\ last.xchg.ok)
    => /\ MapHas(authCodes, last.made)
       /\ authCodes[last.made].clientId = last.txn.clientId
       /\ authCodes[last.made].redirectUri = last.txn.redirectUri
       /\ authCodes[last.made].metaTokens = last.xchg.session
       /\ ~authCodes[last.made].used
       /\ last.resp.status = 302
       /\ last.resp.loc.base = last.txn.redirectUri
       /\ last.resp.loc.code = last.made

\* C8 as stated: a callback whose exchange fails answers 302 to the
\* transaction's redirect URI with error=server_error and a description.
C8_Claim ==
  (last.ep = "exchange" /\ ~last.xchg.ok)
    => /\ last.resp.status = 302
       /\ last.resp.loc.base = last.txn.redirectUri
       /\ last.resp.loc.error = "server_error"
       /\ Truthy(last.resp.loc.error_description)

\* C9 as stated: once a callback naming a stored transaction has been
\* answered (after the exchange, or at once for an upstream error), the
\* transaction is no longer stored.
C9_Claim ==
  (\/ last.ep = "exchange"
   \/ last.ep = "callback" /\ last.resp.status # 0)
    => ~MapHas(transactions, last.req.state)

\* C10 as stated: every redirect of the callback to a client carries the
\* state that the client supplied in the authorize request of the transaction.
C10_Original ==
  (last.ep = "exchange" /\ last.resp.status = 302)
    => last.resp.loc.state = asked[last.txnId].state
\* C10: every redirect of the callback to a client carries the state that
\* the client supplied in the authorize request of the transaction when that
\* state was not empty, and the random value the server drew for the
\* transaction otherwise.
C10_StateEchoed ==
  (last.ep = "exchange" /\ last.resp.status = 302)
    => IF Truthy(asked[last.txnId].state)
         THEN last.resp.loc.state = asked[last.txnId].state
         ELSE \E n \in 1..nTxn : /\ last.txnId = TxnIdOf(n)
                                 /\ last.resp.loc.state = RandomState(n)
\* a failed exchange is answered for one flow while the callback of another
\* flow, begun with a different state, is suspended in the exchanger
C10_Witness ==
  /\ last.ep = "exchange"
  /\ last.resp.status = 302
  /\ last.resp.loc.error = "server_error"
  /\ Truthy(asked[last.txnId].state)
  /\ \E cb \in BagToSet(callbacks) :
       /\ cb.req.state # last.txnId
       /\ asked[cb.req.state].state # asked[last.txnId].state

IssuedSubs == {i.token[2].obj.sub : i \in issued}

\* C11: a token request for a stored, unused code marks the code used, is
\* answered 200 with token_type Bearer, expires_in 3600 and a token that
\* verifies, expires 3600 s after its iat and carries a sub never used before,
\* and adds to the token store one record, keyed by that sub, holding the
\* code's credential set; after every step the key of every token record is
\* the sub of exactly one issued token.
C11_Redemption ==
  [][ /\ (/\ last'.ep = "token"
          /\ last'.req.grant_type = "authorization_code"
          /\ MapHas(authCodes, last'.req.code)
          /\ ~authCodes[last'.req.code].used)
         => LET c == last'.req.code
                v == verifyJWT(last'.resp.access_token, now')
            IN  /\ authCodes' = MapSet(authCodes, c, [authCodes[c] EXCEPT !.used = TRUE])
                /\ last'.resp.status = 200
                /\ last'.resp.token_type = "Bearer"
                /\ last'.resp.expires_in = 3600
                /\ v.valid
                /\ v.payload.exp - v.payload.iat = 3600
                /\ v.payload.sub \notin IssuedSubs \cup DOMAIN tokenStore
                /\ DOMAIN tokenStore' = DOMAIN tokenStore \cup {v.payload.sub}
                /\ \A k \in DOMAIN tokenStore : tokenStore'[k] = tokenStore[k]
                /\ tokenStore'[v.payload.sub].metaTokens = authCodes[c].metaTokens
      /\ \A k \in DOMAIN tokenStore' :
           Cardinality({i \in issued' : i.token[2].obj.sub = k}) = 1 ]_vars
\* a second code is redeemed while the record of the first is stored
C11_Witness ==
  /\ last.ep = "token"
  /\ last.resp.status = 200
  /\ Cardinality(DOMAIN tokenStore) = 2
  /\ authCodes[last.req.code].used

\* C12: an authorization_code token request whose code is not in the code
\* table is answered 400 invalid_grant without a token, and the code table and
\* the token store stay as they were.
C12_UnknownCode ==
  [][ (/\ last'.ep = "token"
       /\ last'.req.grant_type = "authorization_code"
       /\ Truthy(last'.req.code)
       /\ ~MapHas(authCodes, last'.req.code))
      => (/\ IsJsonError(last'.resp, "invalid_grant")
          /\ last'.resp.access_token = NoToken
          /\ UNCHANGED << authCodes, tokenStore, issued >>) ]_vars
\* a code the server never minted is presented while a minted code is stored
C12_Witness ==
  /\ last.ep = "token"
  /\ last.req.code = "bogus"
  /\ last.req.grant_type = "authorization_code"
  /\ IsJsonError(last.resp, "invalid_grant")
  /\ DOMAIN authCodes # {}

\* C13 as stated: a token request presenting a code older than 300 s is
\* answered 400 invalid_grant and gets no token.
C13_Claim ==
  (/\ last.ep = "token"
   /\ last.req.grant_type = "authorization_code"
   /\ MapHas(authCodes, last.req.code)
   /\ now - authCodes[last.req.code].createdAt > CodeTtlMs)
    => (IsJsonError(last.resp, "invalid_grant") /\ last.resp.access_token = NoToken)

\* C14 as stated: the resolver answers unauthenticated when the header is
\* missing or not Bearer, when the token has not exactly three segments, has
\* a signature that is not the keyed hash of its header and payload, or has
\* expired, and when its sub is empty or names no token record.
C14_Claim ==
  (/\ last.ep = "authenticate"
   /\ LET tok == last.header.token
      IN  \/ last.header.scheme # "Bearer"
          \/ Len(tok) # 3
          \/ tok[3].enc # "mac"
          \/ tok[3] # Hmac(JWT_SECRET, tok[1], tok[2])
          \/ tok[2].obj.exp <= now \div 1000
          \/ ~Truthy(Get(tok[2].obj, "sub"))
          \/ ~MapHas(tokenStore, tok[2].obj.sub))
    => last.auth = NoAuth

\* C15 as stated: verifying an issued token before ttl seconds have passed
\* since it was issued gives valid with every claim of the caller in the
\* payload, and verifying it after ttl seconds have passed gives invalid.
C15_Claim ==
  (codec.phase = "verified" /\ codec.presented = codec.token)
    => /\ codec.atMs - codec.iatMs < codec.ttl * 1000
            => /\ codec.result.valid
               /\ \A k \in DOMAIN codec.claims :
                    Get(codec.result.payload, k) = codec.claims[k]
       /\ codec.atMs - codec.iatMs > codec.ttl * 1000 => ~codec.result.valid

\* C16 as stated: verifying an issued token when its exp is at or before the
\* current second gives invalid.
C16_Claim ==
  (/\ codec.phase = "verified"
   /\ codec.presented = codec.token
   /\ codec.token[2].obj.exp <= codec.atMs \div 1000)
    => ~codec.result.valid

\* C17: verify gives valid only for a string whose third segment is the
\* keyed hash, under the process secret, of its first two; an issued token
\* whose payload segment was changed, header and signature kept, is invalid.
C17_SignatureBinds ==
  codec.phase = "verified"
    => LET tok == codec.presented
       IN  /\ codec.result.valid
                => /\ Len(tok) >= 3
                   /\ tok[3].enc = "mac"
                   /\ tok[3] = Hmac(JWT_SECRET, tok[1], tok[2])
           /\ (/\ Len(tok) = 3
               /\ tok[1] = codec.token[1]
               /\ tok[3] = codec.token[3]
               /\ tok[2] # codec.token[2])
                => ~codec.result.valid
\* an issued token whose payload was given a later exp, checked after the
\* true exp, is refused
C17_Witness ==
  /\ codec.phase = "verified"
  /\ codec.presented = TamperPayload(codec.token)
  /\ codec.atMs \div 1000 > codec.token[2].obj.exp
  /\ ~codec.result.valid

\* C18 as stated: verify gives invalid for every string with fewer or more
\* than three segments and for every string whose payload segment does not
\* decode to JSON.
C18_Claim ==
  (/\ codec.phase = "verified"
   /\ \/ Len(codec.presented) # 3
      \/ codec.presented[2].enc # "b64json")
    => ~codec.result.valid

\* C19: a sweep tick keeps in the transaction, code and token tables exactly
\* the entries not older than 600 s, 300 s and 3600 s, each as it was, and
\* leaves the registered clients as they were.
C19_SweepExact ==
  [][ last'.ep = "sweep"
      => (/\ DOMAIN transactions' =
               {k \in DOMAIN transactions : now - transactions[k].createdAt <= TxnTtlMs}
          /\ DOMAIN authCodes' =
               {k \in DOMAIN authCodes : now - authCodes[k].createdAt <= CodeTtlMs}
          /\ DOMAIN tokenStore' =
               {k \in DOMAIN tokenStore : now - tokenStore[k].createdAt <= TokenTtlMs}
          /\ \A k \in DOMAIN transactions' : transactions'[k] = transactions[k]
          /\ \A k \in DOMAIN authCodes' : authCodes'[k] = authCodes[k]
          /\ \A k \in DOMAIN tokenStore' : tokenStore'[k] = tokenStore[k]
          /\ registeredClients' = registeredClients) ]_vars
\* a tick has removed a redeemed code and kept the younger-than-TTL token
\* record made from it, with a client registered
C19_Witness ==
  /\ last.ep = "sweep"
  /\ Redeemed # {}
  /\ DOMAIN authCodes = {}
  /\ DOMAIN tokenStore # {}
  /\ DOMAIN registeredClients # {}

\* C20 as stated: a callback naming a transaction that a sweep has removed is
\* answered 400 invalid_request.
C20_Original ==
  (last.ep = "callback" /\ last.req.state \in swept)
    => IsJsonError(last.resp, "invalid_request")
\* C20: a callback naming a transaction that a sweep has removed is answered
\* with a direct 400 error, the upstream's error code when the request carries
\* one and invalid_request otherwise, is not handed to the exchanger and mints
\* no code.
C20_SweptTransaction ==
  [][ (last'.ep = "callback" /\ last'.req.state \in swept)
      => (/\ IsJsonError(last'.resp, IF Truthy(last'.req.error) THEN last'.req.error
                                      ELSE "invalid_request")
          /\ callbacks' = callbacks
          /\ nCode' = nCode
          /\ authCodes' = authCodes) ]_vars
\* the upstream's redirect with a code arrives for a swept transaction
C20_Witness ==
  /\ last.ep = "callback"
  /\ last.req.state \in swept
  /\ Truthy(last.req.code)
  /\ IsJsonError(last.resp, "invalid_request")

\* C21 as stated: at every instant at which verifyJWT still accepts an issued
\* bearer token, the record under its sub is still in the token store.
C21_Claim ==
  \A i \in issued : verifyJWT(i.token, now).valid => MapHas(tokenStore, i.sub)

\* C22 as stated: when step 2 of the exchange fails by a network error or a
\* non-success response while steps 1 and 3 succeed, the exchange returns a
\* credential set with the short-lived token and its expiry, and the callback
\* answers with a success redirect carrying a code.
C22_Claim ==
  (/\ last.ep = "exchange"
   /\ last.up.step1 = "ok"
   /\ last.up.step2 # "ok"
   /\ last.up.user = "ok"
   /\ last.up.pages = "ok")
  => (/\ last.xchg.ok
      /\ last.xchg.session.userAccessToken = "short_" \o last.req.code
      /\ last.xchg.session.expiresAt = now + ShortExpiresIn * 1000
      /\ last.resp.status = 302
      /\ Truthy(last.made)
      /\ last.resp.loc.code = last.made)

\* C23 as stated: when step 1 or one of the two fetches of step 3 fails by a
\* network error or a non-success response, the exchange raises a fault,
\* returns no credential set, and the callback stores no code.
C23_Claim ==
  (/\ last.ep = "exchange"
   /\ \/ last.up.step1 # "ok"
      \/ last.up.user # "ok"
      \/ last.up.pages # "ok")
  => (/\ ~last.xchg.ok
      /\ last.xchg.session = NoSession
      /\ last.made = NoVal)

\* C24 as stated: every 4xx response of the listener carries a non-empty
\* error and a non-empty error_description.
C24_Claim ==
  (last.resp.status >= 400 /\ last.resp.status < 500)
  => (Truthy(last.resp.error) /\ Truthy(last.resp.error_description))

\* C25 as stated: every handler that has run to its end has sent a response.
\* The handlers still suspended (a callback in the exchange, a token request
\* in readBody) are the only ones without one.
C25_Claim ==
  (\/ last.ep \in {"static", "register", "authorize", "exchange", "token"}
   \/ last.ep = "callback" /\ last.txnId = NoVal)
  => last.resp.status # 0

\* C26 as stated: every tool called without a session throws "Not
\* authenticated" and makes no upstream call.
C26_Original ==
  (last.ep = "tool" /\ ~last.auth.ok)
  => (/\ last.out.kind = "error"
      /\ last.out.text = "Not authenticated"
      /\ last.out.upstream = NoVal)

\* C26: every tool but test_connection, called without a session, throws "Not
\* authenticated" and makes no upstream call; test_connection returns a status
\* report saying "Not authenticated", also without an upstream call.
C26_Unauthenticated ==
  (last.ep = "tool" /\ ~last.auth.ok)
  => IF last.tool = "test_connection"
       THEN /\ last.out.kind = "result"
            /\ last.out.text = "Status: Not authenticated"
            /\ last.out.upstream = NoVal
       ELSE /\ last.out.kind = "error"
            /\ last.out.text = "Not authenticated"
            /\ last.out.upstream = NoVal
\* a tool that needs a page token and an Instagram account is called with
\* both named in the arguments, but without a session
C26_Witness ==
  /\ last.ep = "tool"
  /\ ~last.auth.ok
  /\ last.tool = "create_instagram_post"
  /\ Truthy(last.args.instagram_account_id)
  /\ last.out.kind = "error"

\* a line that is the heading of a page section
IsSectionHeading(l) ==
  \E k \in 0..(MaxPages + 1), p \in PageSamples : l = "## " \o ToString(k) \o ". " \o p.name

\* C27: formatPageList returns exactly "No pages found." for an empty list;
\* for n >= 1 pages the output begins with "# Your Facebook Pages (n)" and its
\* section headings are "## i. <name>" for i = 1..n in input order.
C27_PageList ==
  fmt.phase = "done"
  => LET n == Len(fmt.pages)
     IN  IF n = 0 THEN fmt.out = << "No pages found." >>
         ELSE /\ fmt.out[1] = "# Your Facebook Pages (" \o ToString(n) \o ")"
              /\ SelectSeq(fmt.out, IsSectionHeading)
                   = [i \in 1..n |-> "## " \o ToString(i) \o ". " \o fmt.pages[i].name]
\* three pages, two of them with the same name
C27_Witness ==
  /\ fmt.phase = "done"
  /\ Len(fmt.pages) = 3
  /\ fmt.pages[1].name = fmt.pages[3].name
  /\ fmt.pages[1].id # fmt.pages[3].id
  /\ Len(SelectSeq(fmt.out, IsSectionHeading)) = 3

\* C28 as stated: at most one code is ever stored for one transaction.
C28_Claim ==
  \A c1, c2 \in DOMAIN origin : origin[c1] = origin[c2] => c1 = c2

\* C29: no authorize, callback or token step reads or writes the registered
\* clients: the table stays as it was, an authorize request is stored exactly
\* when it has a client_id, a redirect_uri and response_type "code", a callback
\* goes on to the exchange exactly when its state is a stored transaction, the
\* code minted carries the transaction's client and redirect URI, and a token
\* request succeeds exactly when its code is stored and unused.
C29_ClientsTableInert ==
  [][ /\ last'.ep \in {"authorize", "callback", "exchange", "token_recv", "token"}
           => registeredClients' = registeredClients
      /\ last'.ep = "authorize"
           => IF /\ Truthy(last'.req.client_id)
                 /\ Truthy(last'.req.redirect_uri)
                 /\ last'.req.response_type = "code"
                THEN /\ last'.resp.status = 302
                     /\ DOMAIN transactions' = DOMAIN transactions \cup {last'.made}
                     /\ transactions'[last'.made].clientId = last'.req.client_id
                     /\ transactions'[last'.made].redirectUri = last'.req.redirect_uri
                ELSE /\ last'.resp.status = 400
                     /\ transactions' = transactions
      /\ last'.ep = "callback"
           => /\ UNCHANGED << transactions, authCodes, tokenStore >>
              /\ (last'.resp.status = 0)
                   <=> (/\ ~Truthy(last'.req.error)
                        /\ Truthy(last'.req.code)
                        /\ MapHas(transactions, last'.req.state))
      /\ (last'.ep = "exchange" /\ last'.xchg.ok)
           => /\ last'.resp.status = 302
              /\ last'.resp.loc.base = last'.txn.redirectUri
              /\ DOMAIN authCodes' = DOMAIN authCodes \cup {last'.made}
              /\ authCodes'[last'.made].clientId = last'.txn.clientId
      /\ last'.ep = "token"
           => (last'.resp.status = 200)
                <=> (/\ last'.req.grant_type = "authorization_code"
                     /\ MapHas(authCodes, last'.req.code)
                     /\ ~authCodes[last'.req.code].used) ]_vars
\* a registered client is sent on to the upstream with a redirect URI that is
\* not among the ones it registered
C29_Witness ==
  /\ last.ep = "authorize"
  /\ last.resp.status = 302
  /\ MapHas(transactions, last.made)
  /\ MapHas(registeredClients, last.req.client_id)
  /\ \A i \in DOMAIN registeredClients[last.req.client_id].redirectUris :
       registeredClients[last.req.client_id].redirectUris[i] # last.req.redirect_uri

\* C30: what a token request gets depends on its grant_type, its code and the
\* code table alone: a stored unused code is redeemed whatever client_id,
\* client_secret, redirect_uri and code_verifier come with it, and every other
\* request is refused the same way whatever they are.
C30_TokenOutcome ==
  [][ last'.ep = "token"
      => LET b == last'.req
         IN  IF b.grant_type # "authorization_code"
               THEN /\ IsJsonError(last'.resp, "unsupported_grant_type")
                    /\ UNCHANGED << authCodes, tokenStore >>
             ELSE IF ~Truthy(b.code)
               THEN /\ IsJsonError(last'.resp, "invalid_request")
                    /\ UNCHANGED << authCodes, tokenStore >>
             ELSE IF ~MapHas(authCodes, b.code) \/ authCodes[b.code].used
               THEN /\ IsJsonError(last'.resp, "invalid_grant")
                    /\ UNCHANGED << authCodes, tokenStore >>
             ELSE /\ last'.resp.status = 200
                  /\ last'.resp.access_token # NoToken
                  /\ authCodes'[b.code].used
                  /\ MapHas(tokenStore', last'.made)
                  /\ tokenStore'[last'.made].metaTokens = authCodes[b.code].metaTokens ]_vars
\* a client other than the one the code is bound to redeems it with a wrong
\* verifier, and the transaction behind the code recorded a PKCE challenge
C30_Witness ==
  /\ last.ep = "token"
  /\ last.resp.status = 200
  /\ last.req.client_id # authCodes[last.req.code].clientId
  /\ last.req.redirect_uri # authCodes[last.req.code].redirectUri
  /\ last.req.code_verifier = "wrong"
  /\ asked[origin[last.req.code]].code_challenge = "ch"

====
